---- MODULE Spec2Model ----
(***************************************************************************)
(* Request-state constructors and transport codec of                       *)
(* packages/backend/src/tokens/authStatus.ts.                              *)
(*                                                                         *)
(* One behaviour is one request resolution: an options bag is given, one   *)
(* of the four constructors is called (signedIn suspends on its joint      *)
(* wait while the identity fetches settle in any order), and the returned  *)
(* state is then used: toAuth is called, the state is injected into a      *)
(* key/value carrier and read back.                                        *)
(*                                                                         *)
(* JavaScript scalars are strings; undefined and null are the two strings  *)
(* Undefined and Null, which no input string equals.                       *)
(*                                                                         *)
(* A definition described as another one "with" or "without" something is  *)
(* a faulty version of it, kept to show that the properties tell it apart  *)
(* from the code.                                                          *)
(***************************************************************************)
EXTENDS Naturals, Sequences, FiniteSets

VARIABLES
  options,        \* the configuration bag of the call
  pc,             \* "idle" | "awaiting" (signedIn suspended at line 105) | "done"
  call,           \* the constructor called and its arguments
  promises,       \* the three elements of the array given to Promise.all
  joint,          \* the promise Promise.all returned
  fetchLog,       \* calls made on the identity-fetch collaborator, in order
  completions,    \* the order in which issued fetches settled
  result,         \* what the constructor call produced
  toAuthCalls,    \* number of toAuth() calls made on the returned state
  lastAuth,       \* what the last toAuth() call returned
  carrier,        \* key/value carrier (headers) written by inject
  injectLog,      \* calls of the inject callback, in order
  retrieved,      \* what the last retrieveRequestState call returned
  retrieveLog,    \* keys the last retrieveRequestState call asked for
  lastOp          \* the operation the last step performed

vars == <<options, pc, call, promises, joint, fetchLog, completions, result,
          toAuthCalls, lastAuth, carrier, injectLog, retrieved, retrieveLog, lastOp>>

---------------------------------------------------------------------------
(* JavaScript values *)

Undefined == "<undefined>"
Null == "<null>"

\* Truthiness of a string-or-undefined-or-null value (a && b, a || b).
Truthy(v) == v \notin {Undefined, Null, ""}

\* a || b
Or(a, b) == IF Truthy(a) THEN a ELSE b

\* A parameter with a default value: the default applies to undefined only.
DefaultParam(arg, dflt) == IF arg = Undefined THEN dflt ELSE arg

---------------------------------------------------------------------------
(* Enumerations *)

AuthStatus ==
  [SignedIn |-> "signed-in", SignedOut |-> "signed-out",
   Interstitial |-> "interstitial", Unknown |-> "unknown"]

AuthErrorReason ==
  [CookieAndUATMissing |-> "cookie-and-uat-missing",
   CookieMissing |-> "cookie-missing",
   CookieOutDated |-> "cookie-outdated",
   CookieUATMissing |-> "uat-missing",
   CrossOriginReferrer |-> "cross-origin-referrer",
   HeaderMissingCORS |-> "header-missing-cors",
   HeaderMissingNonBrowser |-> "header-missing-non-browser",
   SatelliteCookieNeedsSyncing |-> "satellite-needs-syncing",
   StandardSignedIn |-> "standard-signed-in",
   StandardSignedOut |-> "standard-signed-out",
   UnexpectedError |-> "unexpected-error",
   Unknown |-> "unknown"]

\* constants.Headers: the three transport keys.
Headers ==
  [AuthStatus |-> "AuthStatus", AuthMessage |-> "AuthMessage", AuthReason |-> "AuthReason"]

---------------------------------------------------------------------------
(* Inputs *)

\* Upper bound on the number of toAuth() calls made on one returned state.
MaxToAuthCalls == 2

\* Tenant metadata of the options bag (proxyUrl is optional).
TenantInputs ==
  { [frontendApi |-> "clerk.a.dev", proxyUrl |-> Undefined, publishableKey |-> "pk_a",
     isSatellite |-> FALSE, domain |-> "a.dev"],
    [frontendApi |-> "clerk.b.dev", proxyUrl |-> "https://b.dev/__clerk", publishableKey |-> "pk_b",
     isSatellite |-> TRUE, domain |-> "b.dev"],
    [frontendApi |-> "", proxyUrl |-> "https://c.dev/__clerk", publishableKey |-> "pk_c",
     isSatellite |-> FALSE, domain |-> ""] }

CookieTokenInputs == {Undefined, "", "c"}
HeaderTokenInputs == {Undefined, "h"}

\* The options bags a constructor is called with.
OptionsInputs ==
  { [apiKey |-> "ak", secretKey |-> "sk", apiUrl |-> "https://api", apiVersion |-> "v1",
     cookieToken |-> ct, headerToken |-> ht,
     frontendApi |-> t.frontendApi, proxyUrl |-> t.proxyUrl,
     publishableKey |-> t.publishableKey, domain |-> t.domain, isSatellite |-> t.isSatellite,
     loadSession |-> ls, loadUser |-> lu, loadOrganization |-> lo] :
    t \in TenantInputs, ct \in CookieTokenInputs, ht \in HeaderTokenInputs,
    ls \in BOOLEAN, lu \in BOOLEAN, lo \in BOOLEAN }

\* Verified claims: sid, sub and the optional org_id.
ClaimsInputs ==
  { [sid |-> "sess_1", sub |-> "user_1", org_id |-> o] : o \in {Undefined, "", "org_1"} }

\* Reasons passed to signedOut / interstitial / unknownState: local reasons and
\* one reason of the token verifier (TokenVerificationErrorReason).
ReasonInputs ==
  {AuthErrorReason.CookieMissing, AuthErrorReason.CookieOutDated, "token-expired"}

\* The optional third argument: not given, empty, or a text.
MessageInputs == {Undefined, "", "stale"}

---------------------------------------------------------------------------
(* Collaborators *)

\* { ...a, ...b }: the keys of b override those of a.
Spread(a, b) ==
  [k \in (DOMAIN a) \cup (DOMAIN b) |-> IF k \in DOMAIN b THEN b[k] ELSE a[k]]

\* Records the identity-fetch collaborator answers with.
getSession(sessionId) == "session:" \o sessionId
getUser(userId) == "user:" \o userId
getOrganization(organizationId) == "organization:" \o organizationId

\* The failure a fetch rejects with.
FetchError(op) == "error:" \o op

\* The auth object builders of ./authObjects: opaque objects built from their arguments.
signedInAuthObject(sessionClaims, opts, debugData) ==
  [kind |-> "SignedInAuthObject", sessionClaims |-> sessionClaims,
   sessionId |-> sessionClaims.sid, userId |-> sessionClaims.sub, orgId |-> sessionClaims.org_id,
   session |-> opts.session, user |-> opts.user, organization |-> opts.organization,
   token |-> opts.token, debug |-> debugData]

signedOutAuthObject(debugData) ==
  [kind |-> "SignedOutAuthObject",
   sessionId |-> Null, userId |-> Null, orgId |-> Null, debug |-> debugData]

\* What a toAuth closure returning null returns.
NullAuth == [kind |-> "null"]

---------------------------------------------------------------------------
(* signedIn *)

\* The three load dimensions, in the order of the array given to Promise.all.
Dims == <<"session", "user", "organization">>
DimSet == {"session", "user", "organization"}

\* An element of the array: a fetch just issued on the collaborator, or
\* Promise.resolve(undefined).
Issued(op, arg) == [kind |-> "pending", value |-> Undefined, op |-> op, arg |-> arg]
Resolved(v) == [kind |-> "fulfilled", value |-> v, op |-> "none", arg |-> Undefined]

\* PromiseArray with the organization fetch gated by its flag alone.
PromiseArrayOrgByFlagOnly(opts, sessionClaims) ==
  [session |->
     IF opts.loadSession THEN Issued("getSession", sessionClaims.sid) ELSE Resolved(Undefined),
   user |->
     IF opts.loadUser THEN Issued("getUser", sessionClaims.sub) ELSE Resolved(Undefined),
   organization |->
     IF opts.loadOrganization
       THEN Issued("getOrganization", sessionClaims.org_id) ELSE Resolved(Undefined)]

\* The array built at lines 105-109, each element gated by its flag.
PromiseArray(opts, sessionClaims) ==
  [session |->
     IF opts.loadSession THEN Issued("getSession", sessionClaims.sid) ELSE Resolved(Undefined),
   user |->
     IF opts.loadUser THEN Issued("getUser", sessionClaims.sub) ELSE Resolved(Undefined),
   organization |->
     IF opts.loadOrganization /\ Truthy(sessionClaims.org_id)
       THEN Issued("getOrganization", sessionClaims.org_id) ELSE Resolved(Undefined)]

\* The collaborator calls made while the array is built, in order.
CallsOf(ps) ==
  LET one(d) == IF ps[d].op = "none" THEN <<>> ELSE << [op |-> ps[d].op, arg |-> ps[d].arg] >>
  IN  one(Dims[1]) \o one(Dims[2]) \o one(Dims[3])

\* What the collaborator answers to a call, when it answers.
Answer(p) ==
  CASE p.op = "getSession" -> getSession(p.arg)
    [] p.op = "getUser" -> getUser(p.arg)
    [] p.op = "getOrganization" -> getOrganization(p.arg)

PendingJoint == [kind |-> "pending", value |-> <<>>, error |-> Undefined]

\* PromiseAll as Promise.allSettled with failures read as undefined records.
PromiseAllIgnoringFailures(j, ps) ==
  IF j.kind # "pending" THEN j
  ELSE IF \A d \in DimSet : ps[d].kind # "pending"
    THEN [kind |-> "fulfilled",
          value |-> << IF ps.session.kind = "fulfilled" THEN ps.session.value ELSE Undefined,
                       IF ps.user.kind = "fulfilled" THEN ps.user.value ELSE Undefined,
                       IF ps.organization.kind = "fulfilled" THEN ps.organization.value
                       ELSE Undefined >>,
          error |-> Undefined]
  ELSE j

\* PromiseAll fulfilling as soon as one issued fetch is fulfilled.
PromiseAllFirstFulfilled(j, ps) ==
  IF j.kind # "pending" THEN j
  ELSE IF \E d \in DimSet : ps[d].kind = "rejected"
    THEN [kind |-> "rejected", value |-> <<>>,
          error |-> (CHOOSE e \in {ps[d].value : d \in {x \in DimSet : ps[x].kind = "rejected"}} : TRUE)]
  ELSE IF \/ \A d \in DimSet : ps[d].kind = "fulfilled"
          \/ \E d \in DimSet : ps[d].kind = "fulfilled" /\ ps[d].op # "none"
    THEN [kind |-> "fulfilled", value |-> <<ps.session.value, ps.user.value, ps.organization.value>>,
          error |-> Undefined]
  ELSE j

\* Promise.all: the state of the joint promise j once the elements are ps.  It
\* rejects with the first rejection, fulfils with all values once every element
\* is fulfilled, and never changes once settled.
PromiseAll(j, ps) ==
  IF j.kind # "pending" THEN j
  ELSE IF \E d \in DimSet : ps[d].kind = "rejected"
    THEN [kind |-> "rejected", value |-> <<>>,
          error |-> (CHOOSE e \in {ps[d].value : d \in {x \in DimSet : ps[x].kind = "rejected"}} : TRUE)]
  ELSE IF \A d \in DimSet : ps[d].kind = "fulfilled"
    THEN [kind |-> "fulfilled", value |-> <<ps.session.value, ps.user.value, ps.organization.value>>,
          error |-> Undefined]
  ELSE j

\* Token with the header token taking precedence.
TokenHeaderFirst(opts) == Or(Or(opts.headerToken, opts.cookieToken), "")

\* The token handed to signedInAuthObject (line 125).
Token(opts) == Or(Or(opts.cookieToken, opts.headerToken), "")

\* Lines 111-146: the state signedIn returns once the joint wait gave resp.
signedIn(opts, sessionClaims, resp) ==
  LET session == resp[1]
      user == resp[2]
      organization == resp[3]
      authObject ==
        signedInAuthObject(
          sessionClaims,
          [secretKey |-> opts.secretKey, apiKey |-> opts.apiKey, apiUrl |-> opts.apiUrl,
           apiVersion |-> opts.apiVersion, token |-> Token(opts),
           session |-> session, user |-> user, organization |-> organization],
          Spread(opts, [status |-> AuthStatus.SignedIn]))
  IN  [status |-> AuthStatus.SignedIn,
       reason |-> Null,
       message |-> Null,
       frontendApi |-> opts.frontendApi,
       proxyUrl |-> opts.proxyUrl,
       publishableKey |-> opts.publishableKey,
       domain |-> opts.domain,
       isSatellite |-> opts.isSatellite,
       isSignedIn |-> TRUE,
       isInterstitial |-> FALSE,
       isUnknown |-> FALSE,
       toAuth |-> authObject]

---------------------------------------------------------------------------
(* signedOut, interstitial, unknownState.  The toAuth field holds what the    *)
(* closure returns when called; messageArg is the third argument as passed.   *)

signedOut(opts, reason, messageArg) ==
  LET message == DefaultParam(messageArg, "")
  IN  [status |-> AuthStatus.SignedOut,
       reason |-> reason,
       message |-> message,
       frontendApi |-> opts.frontendApi,
       proxyUrl |-> opts.proxyUrl,
       publishableKey |-> opts.publishableKey,
       isSatellite |-> opts.isSatellite,
       domain |-> opts.domain,
       isSignedIn |-> FALSE,
       isInterstitial |-> FALSE,
       isUnknown |-> FALSE,
       toAuth |-> signedOutAuthObject(
                    Spread(opts, [status |-> AuthStatus.SignedOut, reason |-> reason,
                                  message |-> message]))]

\* interstitial without the default of its message parameter.
interstitialNoMessageDefault(opts, reason, messageArg) ==
  [signedOut(opts, reason, "") EXCEPT
     !.status = AuthStatus.Interstitial, !.message = messageArg,
     !.isInterstitial = TRUE, !.toAuth = NullAuth]

\* interstitial keeping the toAuth of signedOut.
interstitialWithSignedOutAuth(opts, reason, messageArg) ==
  [signedOut(opts, reason, messageArg) EXCEPT
     !.status = AuthStatus.Interstitial, !.isInterstitial = TRUE]

interstitial(opts, reason, messageArg) ==
  LET message == DefaultParam(messageArg, "")
  IN  [status |-> AuthStatus.Interstitial,
       reason |-> reason,
       message |-> message,
       frontendApi |-> opts.frontendApi,
       publishableKey |-> opts.publishableKey,
       isSatellite |-> opts.isSatellite,
       domain |-> opts.domain,
       proxyUrl |-> opts.proxyUrl,
       isSignedIn |-> FALSE,
       isInterstitial |-> TRUE,
       isUnknown |-> FALSE,
       toAuth |-> NullAuth]

\* unknownState keeping the flags of interstitial.
unknownStateWithInterstitialFlags(opts, reason, messageArg) ==
  [interstitial(opts, reason, messageArg) EXCEPT
     !.status = AuthStatus.Unknown, !.proxyUrl = Undefined]

\* unknownState neither reads proxyUrl from the options nor sets it on the
\* state: reading state.proxyUrl gives undefined.
unknownState(opts, reason, messageArg) ==
  LET message == DefaultParam(messageArg, "")
  IN  [status |-> AuthStatus.Unknown,
       reason |-> reason,
       message |-> message,
       frontendApi |-> opts.frontendApi,
       publishableKey |-> opts.publishableKey,
       isSatellite |-> opts.isSatellite,
       domain |-> opts.domain,
       proxyUrl |-> Undefined,
       isSignedIn |-> FALSE,
       isInterstitial |-> FALSE,
       isUnknown |-> TRUE,
       toAuth |-> NullAuth]

---------------------------------------------------------------------------
(* Transport codec *)

EmptyCarrier == [k \in {} |-> ""]

\* The inject callback: sets one key of the carrier.
Set(c, key, value) == [k \in (DOMAIN c) \cup {key} |-> IF k = key THEN value ELSE c[k]]

\* The retrieve callback: the value of a key, or miss (null or undefined) when
\* the carrier does not hold it.
Get(c, key, miss) == IF key \in DOMAIN c THEN c[key] ELSE miss

\* injectRequestState injecting every field that is not null or undefined.
injectRequestStateNonNull(requestState) ==
  LET status == requestState.status
      message == requestState.message
      reason == requestState.reason
  IN  (IF ~(status \in {Null, Undefined}) THEN << <<Headers.AuthStatus, status>> >> ELSE <<>>)
      \o (IF ~(message \in {Null, Undefined}) THEN << <<Headers.AuthMessage, message>> >> ELSE <<>>)
      \o (IF ~(reason \in {Null, Undefined}) THEN << <<Headers.AuthReason, reason>> >> ELSE <<>>)

\* injectRequestState: the inject calls it makes, in order.
injectRequestState(requestState) ==
  LET status == requestState.status
      message == requestState.message
      reason == requestState.reason
  IN  (IF Truthy(status) THEN << <<Headers.AuthStatus, status>> >> ELSE <<>>)
      \o (IF Truthy(message) THEN << <<Headers.AuthMessage, message>> >> ELSE <<>>)
      \o (IF Truthy(reason) THEN << <<Headers.AuthReason, reason>> >> ELSE <<>>)

\* The carrier after a sequence of inject calls.
RECURSIVE ApplyInjects(_, _)
ApplyInjects(c, calls) ==
  IF calls = <<>> THEN c
  ELSE ApplyInjects(Set(c, calls[1][1], calls[1][2]), Tail(calls))

\* retrieveRequestState: the keys it asks the retrieve callback for, in order.
retrieveKeys == <<Headers.AuthStatus, Headers.AuthMessage, Headers.AuthReason>>

\* retrieveRequestState defaulting a missing status to signed-out.
retrieveRequestStateDefaultingStatus(req, miss) ==
  [status |-> Or(Get(req, retrieveKeys[1], miss), AuthStatus.SignedOut),
   message |-> Get(req, retrieveKeys[2], miss),
   reason |-> Get(req, retrieveKeys[3], miss)]

\* retrieveRequestState: the record it returns.
retrieveRequestState(req, miss) ==
  LET status == Get(req, retrieveKeys[1], miss)
      message == Get(req, retrieveKeys[2], miss)
      reason == Get(req, retrieveKeys[3], miss)
  IN  [status |-> status, message |-> message, reason |-> reason]

---------------------------------------------------------------------------
(* The state machine *)

NoResult == [kind |-> "none"]
Returned(state) == [kind |-> "returned", state |-> state]
Thrown(error) == [kind |-> "thrown", error |-> error]

Init ==
  /\ options \in OptionsInputs
  /\ pc = "idle"
  /\ call = [fn |-> "none"]
  /\ promises = [d \in DimSet |-> Resolved(Undefined)]
  /\ joint = PendingJoint
  /\ fetchLog = <<>>
  /\ completions = <<>>
  /\ result = NoResult
  /\ toAuthCalls = 0
  /\ lastAuth = <<>>
  /\ carrier = EmptyCarrier
  /\ injectLog = <<>>
  /\ retrieved = <<>>
  /\ retrieveLog = <<>>
  /\ lastOp = "init"

\* A call of one of the three synchronous constructors.
CallSync(fn, reason, messageArg) ==
  /\ pc = "idle"
  /\ pc' = "done"
  /\ call' = [fn |-> fn, reason |-> reason, messageArg |-> messageArg]
  /\ result' = Returned(CASE fn = "signedOut" -> signedOut(options, reason, messageArg)
                          [] fn = "interstitial" -> interstitial(options, reason, messageArg)
                          [] fn = "unknownState" -> unknownState(options, reason, messageArg))
  /\ lastOp' = fn
  /\ UNCHANGED <<options, promises, joint, fetchLog, completions, toAuthCalls, lastAuth,
                 carrier, injectLog, retrieved, retrieveLog>>

CallSignedOut ==
  \E reason \in ReasonInputs, messageArg \in MessageInputs :
    CallSync("signedOut", reason, messageArg)

CallInterstitial ==
  \E reason \in ReasonInputs, messageArg \in MessageInputs :
    CallSync("interstitial", reason, messageArg)

CallUnknownState ==
  \E reason \in ReasonInputs, messageArg \in MessageInputs :
    CallSync("unknownState", reason, messageArg)

\* signedIn up to its suspension: lines 79-109.  The array is built (issuing the
\* gated fetches) and handed to Promise.all in one synchronous run.
SignedInStart ==
  \E sessionClaims \in ClaimsInputs :
    /\ pc = "idle"
    /\ pc' = "awaiting"
    /\ call' = [fn |-> "signedIn", sessionClaims |-> sessionClaims]
    /\ promises' = PromiseArray(options, sessionClaims)
    /\ fetchLog' = CallsOf(promises')
    /\ joint' = PromiseAll(PendingJoint, promises')
    /\ lastOp' = "signedInStart"
    /\ UNCHANGED <<options, completions, result, toAuthCalls, lastAuth,
                   carrier, injectLog, retrieved, retrieveLog>>

\* The collaborator settles one issued fetch.  It may do so at any time after
\* the fetch was issued, also after signedIn has failed.
Settle(d, kind) ==
  /\ pc # "idle"
  /\ promises[d].kind = "pending"
  /\ promises' = [promises EXCEPT
                    ![d].kind = kind,
                    ![d].value = IF kind = "fulfilled" THEN Answer(promises[d])
                                 ELSE FetchError(promises[d].op)]
  /\ joint' = PromiseAll(joint, promises')
  /\ completions' = Append(completions, d)
  /\ lastOp' = "settle"
  /\ UNCHANGED <<options, pc, call, fetchLog, result, toAuthCalls, lastAuth,
                 carrier, injectLog, retrieved, retrieveLog>>

FetchFulfil == \E d \in DimSet : Settle(d, "fulfilled")

FetchReject == \E d \in DimSet : Settle(d, "rejected")

\* signedIn resumes from the joint wait: it returns the state, or the await
\* throws the rejection, which nothing in signedIn catches.
SignedInResume ==
  /\ pc = "awaiting"
  /\ joint.kind # "pending"
  /\ pc' = "done"
  /\ result' = IF joint.kind = "fulfilled"
                 THEN Returned(signedIn(options, call.sessionClaims, joint.value))
                 ELSE Thrown(joint.error)
  /\ lastOp' = "signedInResume"
  /\ UNCHANGED <<options, call, promises, joint, fetchLog, completions, toAuthCalls,
                 lastAuth, carrier, injectLog, retrieved, retrieveLog>>

\* requestState.toAuth()
ToAuth ==
  /\ result.kind = "returned"
  /\ toAuthCalls < MaxToAuthCalls
  /\ toAuthCalls' = toAuthCalls + 1
  /\ lastAuth' = << result.state.toAuth >>
  /\ lastOp' = "toAuth"
  /\ UNCHANGED <<options, pc, call, promises, joint, fetchLog, completions, result,
                 carrier, injectLog, retrieved, retrieveLog>>

\* injectRequestState(result.state, inject) on the carrier.
Inject ==
  /\ result.kind = "returned"
  /\ injectLog = <<>>
  /\ injectLog' = injectRequestState(result.state)
  /\ carrier' = ApplyInjects(carrier, injectLog')
  /\ lastOp' = "inject"
  /\ UNCHANGED <<options, pc, call, promises, joint, fetchLog, completions, result,
                 toAuthCalls, lastAuth, retrieved, retrieveLog>>

\* retrieveRequestState(carrier, retrieve), before or after the injection.
Retrieve ==
  \E miss \in {Null, Undefined} :
    /\ pc = "done"
    /\ retrieved' = << retrieveRequestState(carrier, miss) >>
    /\ retrieveLog' = retrieveKeys
    /\ lastOp' = "retrieve"
    /\ UNCHANGED <<options, pc, call, promises, joint, fetchLog, completions, result,
                   toAuthCalls, lastAuth, carrier, injectLog>>

Next ==
  \/ CallSignedOut
  \/ CallInterstitial
  \/ CallUnknownState
  \/ SignedInStart
  \/ FetchFulfil
  \/ FetchReject
  \/ SignedInResume
  \/ ToAuth
  \/ Inject
  \/ Retrieve

Spec == Init /\ [][Next]_vars

---------------------------------------------------------------------------
(* Properties *)

Absent(v) == v \in {Null, Undefined}

IsSignedInCall == call.fn = "signedIn"

\* Number of calls of op made on the collaborator.
Issues(op) == Cardinality({i \in 1..Len(fetchLog) : fetchLog[i].op = op})

\* The dimension whose fetch was the first to fail.
FirstRejected ==
  completions[CHOOSE i \in 1..Len(completions) :
                /\ promises[completions[i]].kind = "rejected"
                /\ \A j \in 1..(i - 1) : promises[completions[j]].kind # "rejected"]

\* The records a signedIn call is to end up with, from its inputs alone.
ExpectedRecords(opts, sessionClaims) ==
  << IF opts.loadSession THEN getSession(sessionClaims.sid) ELSE Undefined,
     IF opts.loadUser THEN getUser(sessionClaims.sub) ELSE Undefined,
     IF opts.loadOrganization /\ Truthy(sessionClaims.org_id)
       THEN getOrganization(sessionClaims.org_id) ELSE Undefined >>

\* C1: in every state a constructor returns, each of isSignedIn, isInterstitial
\* and isUnknown is true exactly when status is SignedIn, Interstitial and
\* Unknown respectively; so at most one is true, and none exactly when the
\* status is SignedOut.
C1_BooleansFollowStatus ==
  result.kind = "returned" =>
    LET s == result.state
    IN  /\ s.isSignedIn <=> (s.status = AuthStatus.SignedIn)
        /\ s.isInterstitial <=> (s.status = AuthStatus.Interstitial)
        /\ s.isUnknown <=> (s.status = AuthStatus.Unknown)
        /\ Cardinality({b \in {"isSignedIn", "isInterstitial", "isUnknown"} : s[b]}) <= 1
        /\ (~s.isSignedIn /\ ~s.isInterstitial /\ ~s.isUnknown) <=> (s.status = AuthStatus.SignedOut)

C1_Witness ==
  /\ result.kind = "returned"
  /\ call.fn = "unknownState"
  /\ result.state.isUnknown
  /\ ~result.state.isInterstitial

\* C2: every returned state carries frontendApi, proxyUrl, publishableKey,
\* isSatellite and domain equal to the same-named option, whichever of the
\* four constructors built it.
C2_TenantMetadataCarried ==
  result.kind = "returned" =>
    LET s == result.state
    IN  /\ s.frontendApi = options.frontendApi
        /\ s.proxyUrl = options.proxyUrl
        /\ s.publishableKey = options.publishableKey
        /\ s.isSatellite = options.isSatellite
        /\ s.domain = options.domain

\* C3: in a signedIn call each of getSession, getUser and getOrganization is
\* issued at most once, and only if its flag is set (getOrganization only if
\* the claims also carry an org_id); a dimension that is not issued makes no
\* call and its record in the auth object is undefined.
C3_FetchGating ==
  LET claims == call.sessionClaims
      ops == {fetchLog[i].op : i \in 1..Len(fetchLog)}
  IN  /\ ~IsSignedInCall => fetchLog = <<>>
      /\ IsSignedInCall =>
           /\ \A op \in {"getSession", "getUser", "getOrganization"} : Issues(op) <= 1
           /\ ops \subseteq {"getSession", "getUser", "getOrganization"}
           /\ "getSession" \in ops => options.loadSession
           /\ "getUser" \in ops => options.loadUser
           /\ "getOrganization" \in ops =>
                options.loadOrganization /\ claims.org_id # Undefined
           /\ result.kind = "returned" =>
                LET auth == result.state.toAuth
                IN  /\ "getSession" \notin ops => auth.session = Undefined
                    /\ "getUser" \notin ops => auth.user = Undefined
                    /\ "getOrganization" \notin ops => auth.organization = Undefined

C3_Witness ==
  /\ IsSignedInCall
  /\ result.kind = "returned"
  /\ options.loadOrganization
  /\ call.sessionClaims.org_id = Undefined
  /\ fetchLog = << [op |-> "getSession", arg |-> "sess_1"] >>
  /\ result.state.toAuth.organization = Undefined

\* C4: once a fetch issued by signedIn has failed, signedIn returns no state,
\* and when the call ends it has failed with the failure of the fetch (the first
\* one to fail); the result is never a state of any status.
C4_FetchFailurePropagates ==
  (\E d \in DimSet : promises[d].kind = "rejected") =>
    /\ result.kind # "returned"
    /\ pc = "done" => result = Thrown(promises[FirstRejected].value)

C4_Witness ==
  /\ result.kind = "thrown"
  /\ result.error = FetchError("getUser")
  /\ promises.session.kind = "fulfilled" /\ promises.session.op = "getSession"

\* C5: while signedIn waits every gated fetch has been issued; signedIn returns
\* a state only when no issued fetch is still pending (so it never returns while
\* one never completes), every issued fetch having completed before, and the
\* state is the one its inputs determine, whatever the completion order.
C5_JointWait ==
  IsSignedInCall =>
    LET claims == call.sessionClaims
    IN  /\ options.loadSession => promises.session.op = "getSession"
        /\ options.loadUser => promises.user.op = "getUser"
        /\ (options.loadOrganization /\ Truthy(claims.org_id))
             => promises.organization.op = "getOrganization"
        /\ result.kind = "returned" =>
             /\ \A d \in DimSet : promises[d].kind = "fulfilled"
             /\ Len(completions) = Len(fetchLog)
             /\ result.state = signedIn(options, claims, ExpectedRecords(options, claims))

C5_Witness ==
  /\ IsSignedInCall
  /\ result.kind = "returned"
  /\ completions = <<"organization", "user", "session">>
  /\ lastOp = "signedInResume"

\* C6: the token of the signed-in auth object is the cookie token when there is
\* one, otherwise the header token when there is one, otherwise the empty
\* string (a token is there when it is a non-empty string).
C6_TokenSelection ==
  (IsSignedInCall /\ result.kind = "returned") =>
    LET token == result.state.toAuth.token
    IN  /\ Truthy(options.cookieToken) => token = options.cookieToken
        /\ (~Truthy(options.cookieToken) /\ Truthy(options.headerToken))
             => token = options.headerToken
        /\ (~Truthy(options.cookieToken) /\ ~Truthy(options.headerToken)) => token = ""

C6_Witness ==
  /\ IsSignedInCall
  /\ result.kind = "returned"
  /\ options.cookieToken = "c"
  /\ options.headerToken = "h"
  /\ result.state.toAuth.token = "c"

\* C7: reason and message are both null in a SignedIn state and both non-null
\* in any other returned state, where the reason is the reason passed in and
\* the message is the empty string when no message was passed.
C7_ReasonAndMessage ==
  result.kind = "returned" =>
    LET s == result.state
    IN  /\ s.status = AuthStatus.SignedIn => (s.reason = Null /\ s.message = Null)
        /\ s.status # AuthStatus.SignedIn =>
             /\ ~Absent(s.reason)
             /\ ~Absent(s.message)
             /\ s.reason = call.reason
             /\ call.messageArg = Undefined => s.message = ""

C7_Witness ==
  /\ result.kind = "returned"
  /\ call.fn = "interstitial"
  /\ call.messageArg = Undefined
  /\ result.state.message = ""
  /\ result.state.reason = AuthErrorReason.CookieOutDated

\* C8: injecting a returned state into the empty carrier and then retrieving
\* gives back the status, the message when it is non-empty and the reason when
\* there is one, the others being absent (never the empty string); the carrier
\* holds no key besides AuthStatus, AuthMessage and AuthReason, and holds
\* AuthStatus.
C8_RoundTrip ==
  (injectLog # <<>> /\ lastOp = "retrieve") =>
    LET s == result.state
        r == retrieved[1]
    IN  /\ r.status = s.status
        /\ Truthy(s.message) => r.message = s.message
        /\ ~Truthy(s.message) => Absent(r.message)
        /\ Truthy(s.reason) => r.reason = s.reason
        /\ ~Truthy(s.reason) => Absent(r.reason)
        /\ DOMAIN carrier \subseteq {Headers.AuthStatus, Headers.AuthMessage, Headers.AuthReason}
        /\ Headers.AuthStatus \in DOMAIN carrier

C8_Witness ==
  /\ injectLog # <<>>
  /\ lastOp = "retrieve"
  /\ call.fn = "signedOut"
  /\ result.state.message = ""
  /\ Absent(retrieved[1].message)
  /\ retrieved[1].reason = AuthErrorReason.CookieMissing
  /\ DOMAIN carrier = {Headers.AuthStatus, Headers.AuthReason}

\* C9: every toAuth call returns null on a state from interstitial or
\* unknownState, a signed-out auth object with the state's reason and message
\* and status SignedOut on a state from signedOut, and on a state from signedIn
\* the signed-in auth object built from the claims and the fetched records.
C9_ToAuthByVariant ==
  lastAuth # <<>> =>
    LET auth == lastAuth[1]
        s == result.state
    IN  /\ call.fn \in {"interstitial", "unknownState"} => auth = NullAuth
        /\ call.fn = "signedOut" =>
             /\ auth.kind = "SignedOutAuthObject"
             /\ auth.debug.reason = s.reason
             /\ auth.debug.message = s.message
             /\ auth.debug.status = AuthStatus.SignedOut
        /\ call.fn = "signedIn" =>
             /\ auth.kind = "SignedInAuthObject"
             /\ auth.sessionClaims = call.sessionClaims
             /\ <<auth.session, auth.user, auth.organization>>
                  = <<promises.session.value, promises.user.value, promises.organization.value>>

C9_Witness ==
  /\ toAuthCalls = MaxToAuthCalls
  /\ call.fn = "signedOut"
  /\ lastAuth[1].kind = "SignedOutAuthObject"
  /\ lastAuth[1].debug.reason = "token-expired"
  /\ lastAuth[1].debug.message = "stale"

\* C10: retrieving from a carrier nothing was injected into returns a record
\* whose status, message and reason are all absent, asks the retrieve callback
\* once for each of the three keys, and leaves the carrier empty.
C10_RetrieveFromEmpty ==
  (lastOp = "retrieve" /\ injectLog = <<>>) =>
    /\ Len(retrieved) = 1
    /\ Absent(retrieved[1].status)
    /\ Absent(retrieved[1].message)
    /\ Absent(retrieved[1].reason)
    /\ \A k \in {Headers.AuthStatus, Headers.AuthMessage, Headers.AuthReason} :
         Cardinality({i \in 1..Len(retrieveLog) : retrieveLog[i] = k}) = 1
    /\ Len(retrieveLog) = 3
    /\ carrier = EmptyCarrier

C10_Witness ==
  /\ lastOp = "retrieve"
  /\ injectLog = <<>>
  /\ retrieved = << [status |-> Null, message |-> Null, reason |-> Null] >>

====
